---------------------------- MODULE Spec2Model ----------------------------
(***************************************************************************)
(* tabletd: the Wayland screen-overlay lease manager                       *)
(* (src/src/screen_overlay/backend_wayland) and the earlier single-surface *)
(* overlay (src/src/overlay/backend_wayland).                              *)
(*                                                                         *)
(* Execution contexts of WaylandOverlay::new:                              *)
(*   manager_task  the tokio task running the overlay command loop         *)
(*   wayland_task  the spawn_blocking thread owning the Wayland connection *)
(*   lease tasks   one tokio task per Display returned by next_display     *)
(*   callers       the futures of next_display / Display::get_*            *)
(* The compositor (backend) is the environment: it announces globals and   *)
(* sends output and layer-surface events in any order the protocol allows. *)
(***************************************************************************)
EXTENDS Integers, Sequences, FiniteSets, TLC

\* ----------------------------------------------------------------- bounds
NumDisplays == 2      \* wl_output globals the compositor may announce
NumRequests == 2      \* next_display invocations that may be in progress at once
MaxSerial   == 2      \* configure serials the compositor hands out
MaxEvents   == 3      \* tablet events that enter the router

\* ------------------------------------------------------ program constants
CommandQueueCapacity == 32     \* mpsc::channel(32)

OutputIds == 1..NumDisplays
Requests  == 1..NumRequests
Sizes     == {<<0, 0>>, <<3, 2>>} \* <<width, height>> a Mode or Configure event reports
Scales    == {2}                   \* scale factors a Scale event reports
Names     == {"eDP-1"}             \* names a Name event reports

\* Option<T> is the set of at most one T.
None == {}
Some(x) == {x}
IsSome(o) == o # {}
Unwrap(o) == CHOOSE x \in o : TRUE

VARIABLES
    state,           \* Arc<Mutex<SurfaceState>>
    command_queue,   \* the mpsc channel of OverlayCommand
    overlay_alive,   \* the WaylandOverlay value (command_tx, task_handle) exists
    mgr_pc,          \* the manager task: "running", "aborted", "finished"
    wl_pc,           \* the blocking wayland task
    wayland_state,   \* WaylandEventState
    visited,         \* outputs the creation loop has gone through
    backend,         \* the compositor's view of each layer surface
    removed,         \* output globals the compositor has withdrawn
    next_serial,     \* the compositor's configure serial counter
    pc,              \* per next_display invocation
    reply,           \* per invocation: its oneshot reply channel
    lease,           \* per invocation: the SurfaceInfo its lease task saved
    op,              \* per invocation: the DisplayCommand in progress on its lease
    ov,              \* overlay/backend_wayland: State
    ov_backend,      \* overlay/backend_wayland: the compositor's view of base_surface
    ov_announced,    \* overlay/backend_wayland: globals announced so far
    rt_state,        \* event_router: per device, "Idle" or "SessionActive"
    rt_entered,      \* event_router: per device, events that entered the router
    rt_out,          \* event_router: the RoutedEvents that left it, in order
    dp_done,         \* event_dispatcher: how many of rt_out it has handled
    dp_local,        \* event_dispatcher: what the local sink was given
    dp_remote        \* event_dispatcher: per subscriber, what it was given

vars == <<state, command_queue, overlay_alive, mgr_pc, wl_pc, wayland_state,
          visited, backend, removed, next_serial, pc, reply, lease, op,
          ov, ov_backend, ov_announced,
          rt_state, rt_entered, rt_out, dp_done, dp_local, dp_remote>>

mgr_vars == <<state, command_queue, overlay_alive, mgr_pc>>
wl_vars  == <<wl_pc, wayland_state, visited, backend, removed, next_serial>>
req_vars == <<pc, reply, lease, op>>
ov_vars  == <<ov, ov_backend, ov_announced>>
rt_vars  == <<rt_state, rt_entered, rt_out, dp_done, dp_local, dp_remote>>

\* ------------------------------------------------------------ SurfaceState
\* SurfaceState::new
SurfaceStateNew ==
    [ surfaces           |-> << >>,     \* HashMap<u32, SurfaceInfo>
      current_surface_id |-> None,      \* Option<u32>
      raw_surfaces       |-> {},        \* keys of HashMap<u32, RawSurfaceInfo>
      available_surfaces |-> << >>,     \* Vec<u32>
      used_surfaces      |-> << >> ]    \* HashMap<u32, u32>

\* HashMap::insert / HashMap::remove on a function
MapInsert(m, k, v) == [x \in (DOMAIN m) \cup {k} |-> IF x = k THEN v ELSE m[x]]
MapRemove(m, k)    == [x \in (DOMAIN m) \ {k} |-> m[x]]
MapGet(m, k)       == IF k \in DOMAIN m THEN Some(m[k]) ELSE None

SeqToSet(s) == {s[i] : i \in 1..Len(s)}
Occurrences(s, x) == Cardinality({i \in 1..Len(s) : s[i] = x})

\* A plausible slip: add_surface registers the id in the pool twice.
add_surface_twice(st, id, surface_info) ==
    [st EXCEPT !.surfaces = MapInsert(@, id, surface_info),
               !.raw_surfaces = @ \cup {id},
               !.available_surfaces = Append(Append(@, id), id)]

\* SurfaceState::add_surface
add_surface(st, id, surface_info) ==
    [st EXCEPT !.surfaces = MapInsert(@, id, surface_info),
               !.raw_surfaces = @ \cup {id},
               !.available_surfaces = Append(@, id)]

\* A plausible slip: the head of the pool is read but left in the pool.
GetNextDisplayKeepsHead(st) ==
    IF st.available_surfaces = << >>
    THEN [state |-> st, next_surface |-> None]
    ELSE LET next_id == Head(st.available_surfaces)
             count   == IF next_id \in DOMAIN st.used_surfaces
                        THEN st.used_surfaces[next_id] ELSE 0
         IN [state |-> [st EXCEPT
                          !.used_surfaces = MapInsert(@, next_id, count + 1),
                          !.current_surface_id = Some(next_id)],
             next_surface |-> MapGet(st.surfaces, next_id)]

\* A plausible slip: pop() instead of remove(0), the display at the tail is taken.
GetNextDisplayTakesLast(st) ==
    IF st.available_surfaces = << >>
    THEN [state |-> st, next_surface |-> None]
    ELSE LET n       == Len(st.available_surfaces)
             next_id == st.available_surfaces[n]
             count   == IF next_id \in DOMAIN st.used_surfaces
                        THEN st.used_surfaces[next_id] ELSE 0
         IN [state |-> [st EXCEPT
                          !.available_surfaces = SubSeq(@, 1, n - 1),
                          !.used_surfaces = MapInsert(@, next_id, count + 1),
                          !.current_surface_id = Some(next_id)],
             next_surface |-> MapGet(st.surfaces, next_id)]

\* A plausible slip: or_insert(1) instead of or_insert(0), a new entry counts 2.
GetNextDisplayInsertsOne(st) ==
    IF st.available_surfaces = << >>
    THEN [state |-> st, next_surface |-> None]
    ELSE LET next_id == Head(st.available_surfaces)
             count   == IF next_id \in DOMAIN st.used_surfaces
                        THEN st.used_surfaces[next_id] ELSE 1
         IN [state |-> [st EXCEPT
                          !.available_surfaces = Tail(@),
                          !.used_surfaces = MapInsert(@, next_id, count + 1),
                          !.current_surface_id = Some(next_id)],
             next_surface |-> MapGet(st.surfaces, next_id)]

\* OverlayCommand::GetNextDisplay: the block computing next_surface under the lock
GetNextDisplay(st) ==
    IF st.available_surfaces = << >>
    THEN [state |-> st, next_surface |-> None]
    ELSE LET next_id == Head(st.available_surfaces)            \* remove(0)
             count   == IF next_id \in DOMAIN st.used_surfaces  \* entry().or_insert(0)
                        THEN st.used_surfaces[next_id] ELSE 0
         IN [state |-> [st EXCEPT
                          !.available_surfaces = Tail(@),
                          !.used_surfaces = MapInsert(@, next_id, count + 1),
                          !.current_surface_id = Some(next_id)],
             next_surface |-> MapGet(st.surfaces, next_id)]

\* A plausible slip: the id is pushed back although the entry stays in use.
ReleaseDisplayKeepsEntry(st, id) ==
    IF id \in DOMAIN st.used_surfaces
    THEN [st EXCEPT !.available_surfaces = Append(@, id)]
    ELSE st

\* A plausible slip: an id without entry is put in the available list anyway.
ReleaseDisplayPushesUnknown(st, id) ==
    IF id \in DOMAIN st.used_surfaces
    THEN LET count == st.used_surfaces[id] - 1
         IN IF count = 0
            THEN [st EXCEPT !.used_surfaces = MapRemove(@, id),
                            !.available_surfaces = Append(@, id)]
            ELSE [st EXCEPT !.used_surfaces = MapInsert(@, id, count)]
    ELSE [st EXCEPT !.available_surfaces = Append(@, id)]

\* OverlayCommand::ReleaseDisplay
ReleaseDisplay(st, id) ==
    IF id \in DOMAIN st.used_surfaces
    THEN LET count == st.used_surfaces[id] - 1
         IN IF count = 0
            THEN [st EXCEPT !.used_surfaces = MapRemove(@, id),
                            !.available_surfaces = Append(@, id)]
            ELSE [st EXCEPT !.used_surfaces = MapInsert(@, id, count)]
    ELSE st

\* ------------------------------------------------ backend (compositor) objects
\* A layer surface as the compositor sees it: the last serial acknowledged
\* (0: none yet), whether a buffer is attached, whether some buffer was
\* attached while no configure had been acknowledged, whether it was closed,
\* whether the surface was committed, the serials acknowledged so far in the
\* order of the requests, and the serial that was the last one acknowledged
\* when the surface was last committed (0: none).
NewLayerSurface ==
    [acked |-> 0, attached |-> FALSE, early_attach |-> FALSE, closed |-> FALSE,
     committed |-> FALSE, acks |-> << >>, committed_ack |-> 0]

\* wl_surface.commit()
Commit(b) == [b EXCEPT !.committed = TRUE, !.committed_ack = b.acked]

\* zwlr_layer_surface_v1.ack_configure(serial)
AckConfigure(b, serial) == [b EXCEPT !.acked = serial, !.acks = Append(@, serial)]

\* wl_surface.attach(Some(&buffer), 0, 0)
Attach(b) == [b EXCEPT !.attached = TRUE, !.early_attach = @ \/ (b.acked = 0)]

\* ------------------------------------------------------- WaylandEventState
\* WaylandOverlay::new: let mut wayland_state = WaylandEventState { .. }
WaylandEventStateNew ==
    [ running       |-> TRUE,
      compositor    |-> FALSE,     \* Option<WlCompositor> is Some
      shm           |-> FALSE,     \* Option<WlShm> is Some
      layer_shell   |-> FALSE,     \* Option<ZwlrLayerShellV1> is Some
      outputs       |-> << >>,     \* HashMap<u32, OutputInfo>
      surfaces      |-> << >>,     \* HashMap<u32, RawSurfaceInfo>
      registry_done |-> FALSE ]

\* Dispatch<WlRegistry>: the OutputInfo inserted for a "wl_output" global
OutputInfoNew ==
    [width |-> None, height |-> None, name |-> None, scale_factor |-> 1,
     has_valid_size |-> FALSE]

\* Dispatch<WlRegistry>::event, the statement after the match
MarkRegistryDone(ws) ==
    IF ws.compositor /\ ws.shm /\ ws.layer_shell
    THEN [ws EXCEPT !.registry_done = TRUE]
    ELSE ws

\* Dispatch<WlRegistry>::event, Event::Global
RegistryGlobal(ws, interface, name) ==
    MarkRegistryDone(
        CASE interface = "wl_compositor"       -> [ws EXCEPT !.compositor = TRUE]
          [] interface = "wl_shm"              -> [ws EXCEPT !.shm = TRUE]
          [] interface = "wl_output"           ->
                 [ws EXCEPT !.outputs = MapInsert(@, name, OutputInfoNew)]
          [] interface = "zwlr_layer_shell_v1" -> [ws EXCEPT !.layer_shell = TRUE]
          [] OTHER                             -> ws)

\* Dispatch<WlRegistry>::event, Event::GlobalRemove
RegistryGlobalRemove(ws, name) ==
    MarkRegistryDone([ws EXCEPT !.outputs = MapRemove(@, name),
                                !.surfaces = MapRemove(@, name)])

\* Dispatch<WlOutput>::event, Event::Mode
OutputMode(ws, id, width, height) ==
    IF id \in DOMAIN ws.outputs
    THEN [ws EXCEPT !.outputs[id] =
             [@ EXCEPT !.width = Some(width),
                       !.height = Some(height),
                       !.has_valid_size = @ \/ (width > 0 /\ height > 0)]]
    ELSE ws

\* Dispatch<WlOutput>::event, Event::Scale
OutputScale(ws, id, factor) ==
    IF id \in DOMAIN ws.outputs
    THEN [ws EXCEPT !.outputs[id].scale_factor = factor]
    ELSE ws

\* Dispatch<WlOutput>::event, Event::Name
OutputName(ws, id, name) ==
    IF id \in DOMAIN ws.outputs
    THEN [ws EXCEPT !.outputs[id].name = Some(name)]
    ELSE ws

\* A plausible slip: the test asks every output for a valid size.
all_outputs_have_size_every(ws) ==
    IF DOMAIN ws.outputs = {}
    THEN FALSE
    ELSE \A id \in DOMAIN ws.outputs : ws.outputs[id].has_valid_size

\* WaylandEventState::all_outputs_have_size
all_outputs_have_size(ws) ==
    IF DOMAIN ws.outputs = {}
    THEN FALSE
    ELSE \E id \in DOMAIN ws.outputs : ws.outputs[id].has_valid_size

\* WaylandOverlay::new: the condition of the enumeration wait loop
EnumerationPending(ws) ==
    \/ ~ws.registry_done
    \/ DOMAIN ws.outputs = {}
    \/ ~all_outputs_have_size(ws)

\* A plausible slip: ack_configure is called inside the loop, for the surface
\* that was found.
LayerSurfaceConfigureAcksInLoop(ws, be, id, serial, width, height, file_ok) ==
    LET acked == [be EXCEPT ![id] = AckConfigure(@, serial)]
    IN IF id \in DOMAIN ws.surfaces
       THEN IF width > 0 /\ height > 0 /\ ws.shm /\ file_ok
            THEN [ws |-> [ws EXCEPT !.surfaces[id].buffer = TRUE],
                  be |-> [acked EXCEPT ![id] = Commit(Attach(@))]]
            ELSE [ws |-> ws, be |-> [acked EXCEPT ![id] = Commit(@)]]
       ELSE [ws |-> ws, be |-> be]

\* Dispatch<ZwlrLayerSurfaceV1>::event, Event::Configure.  file_ok: whether
\* tempfile::tempfile() succeeded.
LayerSurfaceConfigure(ws, be, id, serial, width, height, file_ok) ==
    LET acked == [be EXCEPT ![id] = AckConfigure(@, serial)]
    IN IF id \in DOMAIN ws.surfaces
       THEN IF width > 0 /\ height > 0 /\ ws.shm /\ file_ok
            THEN [ws |-> [ws EXCEPT !.surfaces[id].buffer = TRUE],
                  be |-> [acked EXCEPT ![id] = Commit(Attach(@))]]
            ELSE [ws |-> ws, be |-> [acked EXCEPT ![id] = Commit(@)]]
       ELSE [ws |-> ws, be |-> acked]

\* Dispatch<ZwlrLayerSurfaceV1>::event, Event::Closed
LayerSurfaceClosed(ws, id) ==
    LET removed_one == [ws EXCEPT !.surfaces = MapRemove(@, id)]
    IN IF DOMAIN removed_one.surfaces = {}
       THEN [removed_one EXCEPT !.running = FALSE]
       ELSE removed_one

\* ------------------------------------------- event_router, event_dispatcher
\* The devices whose events are routed.
Devices == {"tablet_a", "tablet_b"}

\* event_model: TabletEvent values (PenEvent, AuxButton, Wheel)
PenSample == [kind |-> "PenEvent"]
AuxButton(button_id, pressed) ==
    [kind |-> "AuxButton", button_id |-> button_id, pressed |-> pressed]
WheelTurn == [kind |-> "Wheel"]
TabletEvents == {PenSample, AuxButton(1, TRUE), AuxButton(1, FALSE), WheelTurn}

\* The gesture table: which events engage and disengage a session.
GestureTable == [engage |-> {AuxButton(1, TRUE)}, disengage |-> {AuxButton(1, FALSE)}]

RoutedEvent(source, payload, tag) == [source |-> source, payload |-> payload, tag |-> tag]

\* A plausible slip: the event is tagged with the state after its transition.
RouteTagsAfterTransition(st, source, event) ==
    LET next == IF st = "Idle" /\ event \in GestureTable.engage
                THEN "SessionActive"
                ELSE IF st = "SessionActive" /\ event \in GestureTable.disengage
                     THEN "Idle" ELSE st
        tag  == IF next = "SessionActive" THEN "Suppressed" ELSE "Propagate"
    IN [state |-> next, out |-> <<RoutedEvent(source, event, tag)>>]

\* A plausible slip: an event reserved for the session is swallowed.
RouteDropsSuppressed(st, source, event) ==
    LET next == IF st = "Idle" /\ event \in GestureTable.engage
                THEN "SessionActive"
                ELSE IF st = "SessionActive" /\ event \in GestureTable.disengage
                     THEN "Idle" ELSE st
    IN [state |-> next,
        out |-> IF st = "SessionActive" THEN << >>
                ELSE <<RoutedEvent(source, event, "Propagate")>>]

\* Router: the transition function (state, event) -> (state', tag), with the
\* RoutedEvent it produces.
Route(st, source, event) ==
    LET tag  == IF st = "SessionActive" THEN "Suppressed" ELSE "Propagate"
        next == IF st = "Idle" /\ event \in GestureTable.engage
                THEN "SessionActive"
                ELSE IF st = "SessionActive" /\ event \in GestureTable.disengage
                     THEN "Idle" ELSE st
    IN [state |-> next, out |-> <<RoutedEvent(source, event, tag)>>]

\* Remote subscribers and their filters: one takes everything, one excludes
\* the events tagged Suppressed.
Subscribers == {"unfiltered", "no_suppressed"}
FilterOf(sub) ==
    IF sub = "no_suppressed" THEN [exclude_tag |-> Some("Suppressed")]
    ELSE [exclude_tag |-> None]
Accepts(filter, routed) == routed.tag \notin filter.exclude_tag

\* A plausible slip: the local sink is given every event, whatever its tag.
DispatchLocalIgnoresTag(routed) == <<routed>>

\* Dispatcher: what the local sink is given of one RoutedEvent.
DispatchLocal(routed) == IF routed.tag = "Propagate" THEN <<routed>> ELSE << >>

\* Dispatcher: what a subscriber is given of one RoutedEvent.
DispatchRemote(sub, routed) ==
    IF Accepts(FilterOf(sub), routed) THEN <<routed>> ELSE << >>

\* ------------------------------------------------------------------- Init
NoReply == [st |-> "none", val |-> None]
NoOp    == [kind |-> "none", st |-> "none", result |-> None]

\* overlay/backend_wayland: test_overlay, let mut state = State { .. }
OvStateNew ==
    [ running          |-> TRUE,
      configured       |-> FALSE,
      base_surface     |-> FALSE,
      buffer           |-> FALSE,
      input_region     |-> FALSE,
      zwlr_layer_shell |-> FALSE,
      output           |-> None,
      layer_surface    |-> FALSE ]

Init ==
    /\ state = SurfaceStateNew
    /\ command_queue = << >>
    /\ overlay_alive = TRUE
    /\ mgr_pc = "running"
    /\ wl_pc = "queued"
    /\ wayland_state = WaylandEventStateNew
    /\ visited = {}
    /\ backend = << >>
    /\ removed = {}
    /\ next_serial = 1
    /\ pc = [q \in Requests |-> "idle"]
    /\ reply = [q \in Requests |-> NoReply]
    /\ lease = [q \in Requests |-> None]
    /\ op = [q \in Requests |-> NoOp]
    /\ ov = OvStateNew
    /\ ov_backend = NewLayerSurface
    /\ ov_announced = {}
    /\ rt_state = [d \in Devices |-> "Idle"]
    /\ rt_entered = [d \in Devices |-> 0]
    /\ rt_out = << >>
    /\ dp_done = 0
    /\ dp_local = << >>
    /\ dp_remote = [sub \in Subscribers |-> << >>]

\* ------------------------------------------------------------ the callers
\* OverlayCommand: resp is the oneshot::Sender the command carries (here the
\* invocation that holds its receiver), id the u32 it carries.
GetNextDisplayCmd(q) == [kind |-> "GetNextDisplay", resp |-> Some(q), id |-> None]
ReleaseDisplayCmd(id) == [kind |-> "ReleaseDisplay", resp |-> None, id |-> Some(id)]

\* A plausible slip: the command is sent again, with the same reply channel.
NextDisplayCallSendsTwice(q) ==
    /\ overlay_alive
    /\ pc[q] = "idle"
    /\ \A lower \in 1..(q - 1) : pc[lower] # "idle"
    /\ Len(command_queue) + 1 < CommandQueueCapacity
    /\ command_queue' =
           Append(Append(command_queue, GetNextDisplayCmd(q)), GetNextDisplayCmd(q))
    /\ pc' = [pc EXCEPT ![q] = "waiting"]
    /\ reply' = [reply EXCEPT ![q] = [st |-> "open", val |-> None]]
    /\ UNCHANGED <<state, overlay_alive, mgr_pc, lease, op>>
    /\ UNCHANGED <<wl_vars, ov_vars, rt_vars>>

\* WaylandOverlay::next_display: oneshot::channel(), command_tx.send(..).await.
\* Invocations are anonymous: a new one takes the lowest free number.
NextDisplayCall(q) ==
    /\ overlay_alive
    /\ pc[q] = "idle"
    /\ \A lower \in 1..(q - 1) : pc[lower] # "idle"
    /\ Len(command_queue) < CommandQueueCapacity
    /\ command_queue' = Append(command_queue, GetNextDisplayCmd(q))
    /\ pc' = [pc EXCEPT ![q] = "waiting"]
    /\ reply' = [reply EXCEPT ![q] = [st |-> "open", val |-> None]]
    /\ UNCHANGED <<state, overlay_alive, mgr_pc, lease, op>>
    /\ UNCHANGED <<wl_vars, ov_vars, rt_vars>>

\* WaylandOverlay::next_display: rx.await yields Some(surf); the Display and
\* its task are created
NextDisplayReturn(q) ==
    /\ pc[q] = "waiting"
    /\ reply[q].st = "sent"
    /\ IsSome(reply[q].val)
    /\ pc' = [pc EXCEPT ![q] = "holding"]
    /\ lease' = [lease EXCEPT ![q] = reply[q].val]
    /\ reply' = [reply EXCEPT ![q] = NoReply]
    /\ UNCHANGED <<mgr_vars, op, wl_vars, ov_vars, rt_vars>>

\* WaylandOverlay::next_display: rx.await yields None;
\* surface.ok_or_else(|| unreachable!()) panics
NextDisplayPanic(q) ==
    /\ pc[q] = "waiting"
    /\ reply[q].st = "sent"
    /\ reply[q].val = None
    /\ pc' = [pc EXCEPT ![q] = "panicked"]
    /\ reply' = [reply EXCEPT ![q] = NoReply]
    /\ UNCHANGED <<mgr_vars, lease, op, wl_vars, ov_vars, rt_vars>>

\* The panicking caller has unwound; another invocation may take its place.
PanicUnwound(q) ==
    /\ pc[q] = "panicked"
    /\ pc' = [pc EXCEPT ![q] = "idle"]
    /\ UNCHANGED <<mgr_vars, reply, lease, op, wl_vars, ov_vars, rt_vars>>

\* The future of next_display is dropped at rx.await before the manager replied:
\* the oneshot receiver is gone, the sender still travels in the queue.
AbandonBeforeReply(q) ==
    /\ pc[q] = "waiting"
    /\ reply[q].st = "open"
    /\ pc' = [pc EXCEPT ![q] = "abandoned"]
    /\ reply' = [reply EXCEPT ![q] = [st |-> "rx_dropped", val |-> None]]
    /\ UNCHANGED <<mgr_vars, lease, op, wl_vars, ov_vars, rt_vars>>

\* The future of next_display is dropped at rx.await after the manager replied
\* and before it was polled: the value in the oneshot is dropped with it.
AbandonAfterReply(q) ==
    /\ pc[q] = "waiting"
    /\ reply[q].st = "sent"
    /\ pc' = [pc EXCEPT ![q] = "idle"]
    /\ reply' = [reply EXCEPT ![q] = NoReply]
    /\ UNCHANGED <<mgr_vars, lease, op, wl_vars, ov_vars, rt_vars>>

\* Display::get_info / Display::get_dma_buffer: channel.send(..).await
DisplayCall(q, kind) ==
    /\ pc[q] = "holding"
    /\ op[q].st # "pending"
    /\ op' = [op EXCEPT ![q] = [kind |-> kind, st |-> "pending", result |-> None]]
    /\ UNCHANGED <<mgr_vars, pc, reply, lease, wl_vars, ov_vars, rt_vars>>

\* The Display is dropped: the DisplayCommand channel closes.
DropDisplay(q) ==
    /\ pc[q] = "holding"
    /\ op[q].st # "pending"
    /\ pc' = [pc EXCEPT ![q] = "dropped"]
    /\ op' = [op EXCEPT ![q] = NoOp]
    /\ UNCHANGED <<mgr_vars, reply, lease, wl_vars, ov_vars, rt_vars>>

\* ------------------------------------------------------- the lease tasks
\* `x as u32` of an i32: a negative x wraps to 2^32 + x, a number beyond the
\* integers of the checker, written here as the pair <<"2^32+", x>>
AsU32(x) == IF x >= 0 THEN x ELSE <<"2^32+", x>>

\* the name GetInfo reports for an output that sent no name: "未知" (unknown)
UnknownName == "unknown"

\* A plausible slip: width and height change places.
DisplayInfoOfSwapsSize(surf_info) ==
    [width        |-> AsU32(surf_info.height),
     height       |-> AsU32(surf_info.width),
     scale_factor |-> surf_info.scale_factor,
     name         |-> IF IsSome(surf_info.name) THEN Unwrap(surf_info.name)
                                                ELSE UnknownName]

\* DisplayCommand::GetInfo handler: the DisplayInfo built from surf_info
DisplayInfoOf(surf_info) ==
    [width        |-> AsU32(surf_info.width),
     height       |-> AsU32(surf_info.height),
     scale_factor |-> surf_info.scale_factor,
     name         |-> IF IsSome(surf_info.name) THEN Unwrap(surf_info.name)
                                                ELSE UnknownName]

\* per-lease task: one DisplayCommand received and answered
LeaseTaskHandle(q) ==
    /\ pc[q] = "holding"
    /\ op[q].st = "pending"
    /\ op' = [op EXCEPT ![q] =
                 [kind |-> @.kind, st |-> "ok",
                  result |-> IF @.kind = "GetInfo"
                             THEN Some(DisplayInfoOf(Unwrap(lease[q])))
                             ELSE None]]
    /\ UNCHANGED <<mgr_vars, pc, reply, lease, wl_vars, ov_vars, rt_vars>>

\* A plausible slip: the release is sent a second time.
LeaseTaskReleaseTwice(q) ==
    /\ pc[q] = "dropped"
    /\ IF mgr_pc = "running"
       THEN /\ Len(command_queue) + 1 < CommandQueueCapacity
            /\ command_queue' =
                   Append(Append(command_queue, ReleaseDisplayCmd(Unwrap(lease[q]).id)),
                          ReleaseDisplayCmd(Unwrap(lease[q]).id))
       ELSE command_queue' = command_queue
    /\ pc' = [pc EXCEPT ![q] = "idle"]
    /\ lease' = [lease EXCEPT ![q] = None]
    /\ UNCHANGED <<state, overlay_alive, mgr_pc, reply, op, wl_vars, ov_vars, rt_vars>>

\* A plausible slip: the result of the send is unwrapped, so a closed command
\* channel makes the lease task panic.
LeaseTaskReleaseUnwraps(q) ==
    /\ pc[q] = "dropped"
    /\ IF mgr_pc = "running"
       THEN /\ Len(command_queue) < CommandQueueCapacity
            /\ command_queue' =
                   Append(command_queue, ReleaseDisplayCmd(Unwrap(lease[q]).id))
            /\ pc' = [pc EXCEPT ![q] = "idle"]
       ELSE /\ command_queue' = command_queue
            /\ pc' = [pc EXCEPT ![q] = "panicked"]
    /\ lease' = [lease EXCEPT ![q] = None]
    /\ UNCHANGED <<state, overlay_alive, mgr_pc, reply, op, wl_vars, ov_vars, rt_vars>>

\* per-lease task: channel_rx.recv() yields None;
\* tx_clone.send(ReleaseDisplay(display_id)).await, its error ignored
LeaseTaskRelease(q) ==
    /\ pc[q] = "dropped"
    /\ IF mgr_pc = "running"
       THEN /\ Len(command_queue) < CommandQueueCapacity
            /\ command_queue' =
                   Append(command_queue, ReleaseDisplayCmd(Unwrap(lease[q]).id))
       ELSE command_queue' = command_queue
    /\ pc' = [pc EXCEPT ![q] = "idle"]
    /\ lease' = [lease EXCEPT ![q] = None]
    /\ UNCHANGED <<state, overlay_alive, mgr_pc, reply, op, wl_vars, ov_vars, rt_vars>>

\* ------------------------------------------------------ the manager task
\* overlay command loop, OverlayCommand::GetNextDisplay(resp)
MgrGetNextDisplay ==
    /\ mgr_pc = "running"
    /\ command_queue # << >>
    /\ Head(command_queue).kind = "GetNextDisplay"
    /\ LET q == Unwrap(Head(command_queue).resp)
           r == GetNextDisplay(state)
       IN /\ state' = r.state
          /\ IF reply[q].st = "open"
             THEN /\ reply' = [reply EXCEPT ![q] = [st |-> "sent", val |-> r.next_surface]]
                  /\ pc' = pc
             ELSE \* resp.send(..) fails: the receiver is gone; the error is ignored
                  /\ reply' = [reply EXCEPT ![q] = NoReply]
                  /\ pc' = [pc EXCEPT ![q] = "idle"]
    /\ command_queue' = Tail(command_queue)
    /\ UNCHANGED <<overlay_alive, mgr_pc, lease, op, wl_vars, ov_vars, rt_vars>>

\* overlay command loop, OverlayCommand::ReleaseDisplay(id)
MgrReleaseDisplay ==
    /\ mgr_pc = "running"
    /\ command_queue # << >>
    /\ Head(command_queue).kind = "ReleaseDisplay"
    /\ state' = ReleaseDisplay(state, Unwrap(Head(command_queue).id))
    /\ command_queue' = Tail(command_queue)
    /\ UNCHANGED <<overlay_alive, mgr_pc, req_vars, wl_vars, ov_vars, rt_vars>>

\* impl Drop for WaylandOverlay: task_handle.abort(), then command_tx is dropped.
\* A pending next_display future borrows the overlay, so none is pending.
DropOverlay ==
    /\ overlay_alive
    /\ \A q \in Requests : pc[q] # "waiting"
    /\ overlay_alive' = FALSE
    /\ UNCHANGED <<state, command_queue, mgr_pc, req_vars, wl_vars, ov_vars, rt_vars>>

\* The abort takes effect at command_rx.recv().await: the task's future is
\* dropped with command_rx (and the commands still queued) and the JoinHandle
\* of the wayland task, which detaches it.
MgrAborted ==
    /\ ~overlay_alive
    /\ mgr_pc = "running"
    /\ mgr_pc' = "aborted"
    /\ command_queue' = << >>
    /\ pc' = [q \in Requests |-> IF pc[q] = "abandoned" THEN "idle" ELSE pc[q]]
    /\ reply' = [q \in Requests |-> NoReply]
    /\ UNCHANGED <<state, overlay_alive, lease, op, wl_vars, ov_vars, rt_vars>>

\* Senders of the command channel: the overlay and every lease task.
SendersAlive ==
    overlay_alive \/ \E q \in Requests : pc[q] \in {"holding", "dropped"}

\* JoinHandle::abort() of a spawn_blocking task: it cancels the task only if
\* the blocking closure has not started to run.
AbortBlocking(p) == IF p = "queued" THEN "done" ELSE p

\* command_rx.recv() yields None within the poll in which the abort was
\* requested: the loop ends and wayland_task.abort() runs.
MgrLoopExit ==
    /\ mgr_pc = "running"
    /\ command_queue = << >>
    /\ ~SendersAlive
    /\ mgr_pc' = "finished"
    /\ wl_pc' = AbortBlocking(wl_pc)
    /\ UNCHANGED <<state, command_queue, overlay_alive, req_vars, ov_vars, rt_vars>>
    /\ UNCHANGED <<wayland_state, visited, backend, removed, next_serial>>

\* ------------------------------------------------------ the wayland task
\* spawn_blocking closure: Connection::connect_to_env() succeeds,
\* display.get_registry(..)
WlConnect ==
    /\ wl_pc = "queued"
    /\ wl_pc' = "enumerate"
    /\ UNCHANGED <<wayland_state, visited, backend, removed, next_serial>>
    /\ UNCHANGED <<mgr_vars, req_vars, ov_vars, rt_vars>>

\* spawn_blocking closure: Connection::connect_to_env() fails
WlConnectFail ==
    /\ wl_pc = "queued"
    /\ wl_pc' = "done"
    /\ UNCHANGED <<wayland_state, visited, backend, removed, next_serial>>
    /\ UNCHANGED <<mgr_vars, req_vars, ov_vars, rt_vars>>

\* The task is inside event_queue.blocking_dispatch(..): events are handled.
Dispatching == wl_pc \in {"enumerate", "main_loop"}

\* The compositor announces wl_compositor, wl_shm or zwlr_layer_shell_v1.
EvGlobal(interface) ==
    /\ Dispatching
    /\ \/ interface = "wl_compositor" /\ ~wayland_state.compositor
       \/ interface = "wl_shm" /\ ~wayland_state.shm
       \/ interface = "zwlr_layer_shell_v1" /\ ~wayland_state.layer_shell
    /\ wayland_state' = RegistryGlobal(wayland_state, interface, 0)
    /\ UNCHANGED <<wl_pc, visited, backend, removed, next_serial>>
    /\ UNCHANGED <<mgr_vars, req_vars, ov_vars, rt_vars>>

\* wl_output globals announced so far.  The compositor numbers its globals
\* upwards and does not reuse the name of a withdrawn one.
Announced == DOMAIN wayland_state.outputs \cup removed

\* The compositor announces the wl_output global named id.
EvOutputGlobal(id) ==
    /\ Dispatching
    /\ id \notin Announced
    /\ \A lower \in 1..(id - 1) : lower \in Announced
    /\ wayland_state' = RegistryGlobal(wayland_state, "wl_output", id)
    /\ UNCHANGED <<wl_pc, visited, backend, removed, next_serial>>
    /\ UNCHANGED <<mgr_vars, req_vars, ov_vars, rt_vars>>

\* The compositor withdraws the wl_output global named id.
EvGlobalRemove(id) ==
    /\ Dispatching
    /\ id \in DOMAIN wayland_state.outputs
    /\ removed' = removed \cup {id}
    /\ wayland_state' = RegistryGlobalRemove(wayland_state, id)
    /\ UNCHANGED <<wl_pc, visited, backend, next_serial>>
    /\ UNCHANGED <<mgr_vars, req_vars, ov_vars, rt_vars>>

\* The compositor reports a mode of output id.
EvMode(id, size) ==
    /\ Dispatching
    /\ id \in DOMAIN wayland_state.outputs
    /\ wayland_state' = OutputMode(wayland_state, id, size[1], size[2])
    /\ UNCHANGED <<wl_pc, visited, backend, removed, next_serial>>
    /\ UNCHANGED <<mgr_vars, req_vars, ov_vars, rt_vars>>

\* The compositor reports the scale factor of output id.
EvScale(id, factor) ==
    /\ Dispatching
    /\ id \in DOMAIN wayland_state.outputs
    /\ wayland_state' = OutputScale(wayland_state, id, factor)
    /\ UNCHANGED <<wl_pc, visited, backend, removed, next_serial>>
    /\ UNCHANGED <<mgr_vars, req_vars, ov_vars, rt_vars>>

\* The compositor reports the name of output id.
EvName(id, name) ==
    /\ Dispatching
    /\ id \in DOMAIN wayland_state.outputs
    /\ wayland_state' = OutputName(wayland_state, id, name)
    /\ UNCHANGED <<wl_pc, visited, backend, removed, next_serial>>
    /\ UNCHANGED <<mgr_vars, req_vars, ov_vars, rt_vars>>

\* The compositor configures the layer surface of output id.
EvConfigure(id, size, file_ok) ==
    /\ Dispatching
    /\ id \in DOMAIN backend
    /\ ~backend[id].closed
    /\ next_serial <= MaxSerial
    /\ LET r == LayerSurfaceConfigure(wayland_state, backend, id, next_serial,
                                      size[1], size[2], file_ok)
       IN /\ wayland_state' = r.ws
          /\ backend' = r.be
    /\ next_serial' = next_serial + 1
    /\ UNCHANGED <<wl_pc, visited, removed>>
    /\ UNCHANGED <<mgr_vars, req_vars, ov_vars, rt_vars>>

\* The compositor closes the layer surface of output id.
EvClosed(id) ==
    /\ Dispatching
    /\ id \in DOMAIN backend
    /\ ~backend[id].closed
    /\ backend' = [backend EXCEPT ![id].closed = TRUE]
    /\ wayland_state' = LayerSurfaceClosed(wayland_state, id)
    /\ UNCHANGED <<wl_pc, visited, removed, next_serial>>
    /\ UNCHANGED <<mgr_vars, req_vars, ov_vars, rt_vars>>

\* WaylandOverlay::new: the enumeration wait loop ends on its condition
WlEnumerationDone ==
    /\ wl_pc = "enumerate"
    /\ ~EnumerationPending(wayland_state)
    /\ wl_pc' = "create"
    /\ UNCHANGED <<wayland_state, visited, backend, removed, next_serial>>
    /\ UNCHANGED <<mgr_vars, req_vars, ov_vars, rt_vars>>

\* blocking_dispatch returns Err: break, in either loop
WlDispatchError ==
    /\ Dispatching
    /\ wl_pc' = IF wl_pc = "enumerate" THEN "create" ELSE "done"
    /\ UNCHANGED <<wayland_state, visited, backend, removed, next_serial>>
    /\ UNCHANGED <<mgr_vars, req_vars, ov_vars, rt_vars>>

\* WaylandOverlay::new: the SurfaceInfo handed to add_surface
SurfaceInfoOf(id, output_info) ==
    [id |-> id, width |-> Unwrap(output_info.width),
     height |-> Unwrap(output_info.height),
     name |-> output_info.name,
     scale_factor |-> output_info.scale_factor]

\* WaylandOverlay::new: one iteration of `for (id, output_info) in &outputs`
\* (HashMap order: any output not yet visited)
WlCreateOverlay(id) ==
    /\ wl_pc = "create"
    /\ id \in DOMAIN wayland_state.outputs
    /\ id \notin visited
    /\ visited' = visited \cup {id}
    /\ IF /\ wayland_state.outputs[id].has_valid_size
          /\ wayland_state.compositor
          /\ wayland_state.layer_shell
       THEN /\ backend' = MapInsert(backend, id, Commit(NewLayerSurface))
            /\ wayland_state' =
                   [wayland_state EXCEPT !.surfaces = MapInsert(@, id, [buffer |-> FALSE])]
            /\ state' = add_surface(state, id,
                                    SurfaceInfoOf(id, wayland_state.outputs[id]))
       ELSE UNCHANGED <<backend, wayland_state, state>>
    /\ UNCHANGED <<wl_pc, removed, next_serial>>
    /\ UNCHANGED <<command_queue, overlay_alive, mgr_pc, req_vars, ov_vars, rt_vars>>

\* WaylandOverlay::new: after the loop; return if no surface was created,
\* else enter the main event loop
WlCreateDone ==
    /\ wl_pc = "create"
    /\ DOMAIN wayland_state.outputs \subseteq visited
    /\ wl_pc' = IF DOMAIN wayland_state.surfaces = {} THEN "done" ELSE "main_loop"
    /\ UNCHANGED <<wayland_state, visited, backend, removed, next_serial>>
    /\ UNCHANGED <<mgr_vars, req_vars, ov_vars, rt_vars>>

\* main event loop: `while wayland_state.running` ends
WlMainLoopExit ==
    /\ wl_pc = "main_loop"
    /\ ~wayland_state.running
    /\ wl_pc' = "done"
    /\ UNCHANGED <<wayland_state, visited, backend, removed, next_serial>>
    /\ UNCHANGED <<mgr_vars, req_vars, ov_vars, rt_vars>>

\* ------------------------------- overlay/backend_wayland (single surface)
\* Dispatch<WlRegistry>::event of State, Event::Global.  b is base_surface as
\* the compositor sees it.
OvRegistryGlobal(o, b, interface, name) ==
    CASE interface = "wl_compositor" ->
             [ov |-> [o EXCEPT !.base_surface = TRUE, !.input_region = TRUE],
              be |-> b]
      [] interface = "wl_shm" ->
             [ov |-> [o EXCEPT !.buffer = TRUE],
              be |-> IF o.base_surface THEN Commit(Attach(b)) ELSE b]
      [] interface = "wl_output" ->
             [ov |-> [o EXCEPT !.output = Some(name)], be |-> b]
      [] interface = "zwlr_layer_shell_v1" ->
             [ov |-> [o EXCEPT !.layer_surface = @ \/ o.base_surface], be |-> b]
      [] OTHER -> [ov |-> o, be |-> b]

\* Dispatch<ZwlrLayerSurfaceV1>::event of State, Event::Configure
OvLayerSurfaceConfigure(o, b, serial) ==
    LET acked == AckConfigure(b, serial)
    IN [ov |-> o, be |-> IF o.base_surface THEN Commit(acked) ELSE acked]

\* The globals the compositor announces to test_overlay, each once.
OvGlobals ==
    {<<"wl_compositor", 0>>, <<"wl_shm", 0>>, <<"zwlr_layer_shell_v1", 0>>}
        \cup {<<"wl_output", id>> : id \in OutputIds}

\* test_overlay: blocking_dispatch handles one registry Global event
OvEvGlobal(g) ==
    /\ ov.running
    /\ g \notin ov_announced
    /\ ov_announced' = ov_announced \cup {g}
    /\ LET r == OvRegistryGlobal(ov, ov_backend, g[1], g[2])
       IN /\ ov' = r.ov
          /\ ov_backend' = r.be
    /\ UNCHANGED <<mgr_vars, req_vars, wl_vars, rt_vars>>

\* test_overlay: blocking_dispatch handles one Configure of the layer surface
OvEvConfigure ==
    /\ ov.running
    /\ ov.layer_surface
    /\ ov_backend.acked < MaxSerial
    /\ LET r == OvLayerSurfaceConfigure(ov, ov_backend, ov_backend.acked + 1)
       IN /\ ov' = r.ov
          /\ ov_backend' = r.be
    /\ UNCHANGED <<ov_announced, mgr_vars, req_vars, wl_vars, rt_vars>>

\* ---------------------------------------------- the router and dispatcher
\* Events that entered the router, over all devices.
RECURSIVE EnteredIn(_)
EnteredIn(devices) ==
    IF devices = {} THEN 0
    ELSE LET d == CHOOSE x \in devices : TRUE
         IN rt_entered[d] + EnteredIn(devices \ {d})

\* An event of device d enters the router and leaves it tagged.
RouterEvent(d, event) ==
    /\ EnteredIn(Devices) < MaxEvents
    /\ LET r == Route(rt_state[d], d, event)
       IN /\ rt_state' = [rt_state EXCEPT ![d] = r.state]
          /\ rt_out' = rt_out \o r.out
    /\ rt_entered' = [rt_entered EXCEPT ![d] = @ + 1]
    /\ UNCHANGED <<dp_done, dp_local, dp_remote>>
    /\ UNCHANGED <<mgr_vars, req_vars, wl_vars, ov_vars>>

\* The session of device d ends by a dismiss command or its idle timeout.
SessionEnds(d) ==
    /\ rt_state[d] = "SessionActive"
    /\ rt_state' = [rt_state EXCEPT ![d] = "Idle"]
    /\ UNCHANGED <<rt_entered, rt_out, dp_done, dp_local, dp_remote>>
    /\ UNCHANGED <<mgr_vars, req_vars, wl_vars, ov_vars>>

\* The dispatcher takes the next RoutedEvent and fans it out.
DispatcherDeliver ==
    /\ dp_done < Len(rt_out)
    /\ LET routed == rt_out[dp_done + 1]
       IN /\ dp_local' = dp_local \o DispatchLocal(routed)
          /\ dp_remote' = [sub \in Subscribers |->
                              dp_remote[sub] \o DispatchRemote(sub, routed)]
    /\ dp_done' = dp_done + 1
    /\ UNCHANGED <<rt_state, rt_entered, rt_out>>
    /\ UNCHANGED <<mgr_vars, req_vars, wl_vars, ov_vars>>

\* ------------------------------------------------------------ specifications
\* The callers acquire leases, awaiting the reply, and give them back.
AwaitedStep ==
    \E q \in Requests :
        \/ NextDisplayCall(q)
        \/ NextDisplayReturn(q)
        \/ NextDisplayPanic(q)
        \/ PanicUnwound(q)
        \/ DropDisplay(q)
        \/ LeaseTaskRelease(q)

\* The callers give up waiting for a reply.
AbandonStep ==
    \E q \in Requests : AbandonBeforeReply(q) \/ AbandonAfterReply(q)

\* The callers acquire, abandon and give back leases.
AcquireStep == AwaitedStep \/ AbandonStep

\* The callers use their leases.
DisplayStep ==
    \E q \in Requests :
        \/ \E kind \in {"GetInfo", "GetDmaBuffer"} : DisplayCall(q, kind)
        \/ LeaseTaskHandle(q)

ManagerStep == MgrGetNextDisplay \/ MgrReleaseDisplay

ShutdownStep == DropOverlay \/ MgrAborted \/ MgrLoopExit

WaylandStep ==
    \/ WlConnect
    \/ WlEnumerationDone
    \/ \E id \in OutputIds : WlCreateOverlay(id)
    \/ WlCreateDone

\* Globals, outputs and their modes, as the compositor sends them at any time.
RegistryStep ==
    \/ \E i \in {"wl_compositor", "wl_shm", "zwlr_layer_shell_v1"} : EvGlobal(i)
    \/ \E id \in OutputIds :
          \/ EvOutputGlobal(id)
          \/ \E size \in Sizes : EvMode(id, size)

\* The compositor withdraws outputs.
RemoveStep == \E id \in OutputIds : EvGlobalRemove(id)

\* The same events, sent only in the burst that answers get_registry, while
\* the wayland task is still in its enumeration wait loop.  In the burst an
\* output reports its current mode once, when it is bound.
InitialGlobal(i) == wl_pc = "enumerate" /\ EvGlobal(i)
InitialOutputGlobal(id) == wl_pc = "enumerate" /\ EvOutputGlobal(id)
InitialMode(id, size) ==
    /\ wl_pc = "enumerate"
    /\ id \in DOMAIN wayland_state.outputs
    /\ wayland_state.outputs[id].width = None
    /\ EvMode(id, size)
InitialGlobalRemove(id) == wl_pc = "enumerate" /\ EvGlobalRemove(id)
\* wl_output sends scale and name after the mode; here once each, by outputs
\* that reported a valid mode.
InitialScale(id, factor) ==
    /\ wl_pc = "enumerate"
    /\ id \in DOMAIN wayland_state.outputs
    /\ wayland_state.outputs[id].has_valid_size
    /\ wayland_state.outputs[id].scale_factor = 1
    /\ EvScale(id, factor)
InitialName(id, name) ==
    /\ wl_pc = "enumerate"
    /\ id \in DOMAIN wayland_state.outputs
    /\ wayland_state.outputs[id].has_valid_size
    /\ wayland_state.outputs[id].name = None
    /\ EvName(id, name)

InitialRegistryStep ==
    \/ \E i \in {"wl_compositor", "wl_shm", "zwlr_layer_shell_v1"} : InitialGlobal(i)
    \/ \E id \in OutputIds :
          \/ InitialOutputGlobal(id)
          \/ \E size \in Sizes : InitialMode(id, size)

InitialRemoveStep == \E id \in OutputIds : InitialGlobalRemove(id)

\* In the burst an output also reports its scale factor and its name.
InitialDescribeStep ==
    \E id \in OutputIds :
        \/ \E factor \in Scales : InitialScale(id, factor)
        \/ \E name \in Names : InitialName(id, name)

\* The compositor closes layer surfaces; the main loop ends with the last one.
ClosedStep == WlMainLoopExit \/ \E id \in OutputIds : EvClosed(id)

ConfigureStep ==
    \E id \in OutputIds, size \in Sizes, file_ok \in BOOLEAN :
        EvConfigure(id, size, file_ok)

FailureStep == WlConnectFail \/ WlDispatchError

\* The lease pool: any callers, against a compositor that sends its globals,
\* outputs and modes in any order while the overlay enumerates them.
Next ==
    \/ AcquireStep
    \/ ManagerStep
    \/ WaylandStep
    \/ InitialRegistryStep

Spec == Init /\ [][Next]_vars

\* The lease pool with callers that await their replies.
NextAwaited ==
    \/ AwaitedStep
    \/ ManagerStep
    \/ WaylandStep
    \/ InitialRegistryStep

\* That pool under the scheduling tokio guarantees: the manager task and the
\* lease tasks, each a task of its own, take the steps they can take.  Nothing
\* obliges the callers or the compositor.
FairPoolSpec ==
    /\ Init /\ [][NextAwaited]_vars
    /\ WF_vars(ManagerStep)
    /\ \A q \in Requests : WF_vars(LeaseTaskRelease(q))

\* The whole manager: the callers also use their leases and drop the overlay,
\* the compositor also closes surfaces and the connection may fail.
NextSystem ==
    \/ AcquireStep
    \/ DisplayStep
    \/ ManagerStep
    \/ ShutdownStep
    \/ WaylandStep
    \/ InitialRegistryStep
    \/ InitialRemoveStep
    \/ ClosedStep
    \/ FailureStep

SpecSystem == Init /\ [][NextSystem]_vars

\* The wayland task alone against a compositor that sends every event at any
\* time: hotplug, mode changes, configures and closes.
NextSurface ==
    \/ WaylandStep
    \/ RegistryStep
    \/ RemoveStep
    \/ ConfigureStep
    \/ ClosedStep
    \/ FailureStep

SpecSurface == Init /\ [][NextSurface]_vars

\* That task as the blocking thread runs it: it takes the steps it can take.
\* Nothing obliges the compositor.
FairSurfaceSpec ==
    /\ Init /\ [][NextSurface]_vars
    /\ WF_vars(WaylandStep \/ WlMainLoopExit)

\* The manager under the scheduling tokio guarantees: a task or thread that can
\* take a step eventually takes it, each lease task being a task of its own.  Nothing obliges callers or the compositor.
FairSpec ==
    /\ Init /\ [][NextSystem]_vars
    /\ WF_vars(ManagerStep)
    /\ WF_vars(MgrAborted \/ MgrLoopExit)
    /\ WF_vars(WaylandStep \/ WlMainLoopExit)
    /\ \A q \in Requests : WF_vars(LeaseTaskHandle(q) \/ LeaseTaskRelease(q))

\* The leases in use: the callers acquire displays and use them while the
\* compositor configures the layer surfaces.
NextLease ==
    \/ AcquireStep
    \/ DisplayStep
    \/ ManagerStep
    \/ WaylandStep
    \/ InitialRegistryStep
    \/ ConfigureStep

SpecLease == Init /\ [][NextLease]_vars

\* test_overlay: next_display is first called after the sleep that gives the
\* overlay time to set up, when the wayland task is past its creation loop.
SettledCall(q) == wl_pc \in {"main_loop", "done"} /\ NextDisplayCall(q)

\* The callers of test_overlay: they acquire leases after the overlay has set
\* up, ask them for their DisplayInfo and give them back.
InfoStep ==
    \E q \in Requests :
        \/ SettledCall(q)
        \/ NextDisplayReturn(q)
        \/ NextDisplayPanic(q)
        \/ PanicUnwound(q)
        \/ DisplayCall(q, "GetInfo")
        \/ LeaseTaskHandle(q)
        \/ DropDisplay(q)
        \/ LeaseTaskRelease(q)

\* The initialization: the wayland task, run by its blocking thread, against a
\* compositor that announces globals and outputs in any order.  Nothing obliges
\* the compositor.
NextInit ==
    \/ WaylandStep
    \/ InitialRegistryStep
    \/ InitialDescribeStep

FairInitSpec == Init /\ [][NextInit]_vars /\ WF_vars(WaylandStep)

\* The ReleaseDisplay handler as a function of the pool and of the id it is
\* given.  The ids a command may carry: those of the outputs and 0, which no
\* output has.
CommandIds == 0..NumDisplays

\* The sequences without repetition over the set S.
DistinctSeqs(S) ==
    {seq \in UNION {[1..n -> S] : n \in 0..Cardinality(S)} :
        \A i, j \in DOMAIN seq : i # j => seq[i] # seq[j]}

\* The pools the manager can hold: some outputs have a surface, each of them is
\* either in the available list or in use with count 1, and the current display
\* is the one leased last.
PoolStates ==
    UNION { UNION {
        { [ surfaces           |-> [id \in created |->
                                       [id |-> id, width |-> 3, height |-> 2,
                                        name |-> None, scale_factor |-> 1]],
            current_surface_id |-> current,
            raw_surfaces       |-> created,
            available_surfaces |-> avail,
            used_surfaces      |-> [id \in created \ SeqToSet(avail) |-> 1] ] :
          current \in IF created = SeqToSet(avail)
                      THEN {None} \cup {Some(i) : i \in created}
                      ELSE {Some(i) : i \in created} } :
        avail \in DistinctSeqs(created) } :
        created \in SUBSET OutputIds }

\* The manager with such a pool, the wayland task having ended, and two
\* ReleaseDisplay commands to handle, the first for an id that has no entry in
\* used_surfaces.
InitRelease ==
    /\ state \in PoolStates
    /\ \E first \in CommandIds \ DOMAIN state.used_surfaces, second \in CommandIds :
           command_queue = <<ReleaseDisplayCmd(first), ReleaseDisplayCmd(second)>>
    /\ overlay_alive = TRUE
    /\ mgr_pc = "running"
    /\ wl_pc = "done"
    /\ wayland_state = WaylandEventStateNew
    /\ visited = {}
    /\ backend = << >>
    /\ removed = {}
    /\ next_serial = 1
    /\ pc = [q \in Requests |-> "idle"]
    /\ reply = [q \in Requests |-> NoReply]
    /\ lease = [q \in Requests |-> None]
    /\ op = [q \in Requests |-> NoOp]
    /\ ov = OvStateNew
    /\ ov_backend = NewLayerSurface
    /\ ov_announced = {}
    /\ rt_state = [d \in Devices |-> "Idle"]
    /\ rt_entered = [d \in Devices |-> 0]
    /\ rt_out = << >>
    /\ dp_done = 0
    /\ dp_local = << >>
    /\ dp_remote = [sub \in Subscribers |-> << >>]

SpecRelease == InitRelease /\ [][MgrReleaseDisplay]_vars

\* The configure handshake: the wayland task against a compositor that, after
\* the startup burst, configures the layer surfaces and withdraws outputs.
NextConfigure ==
    \/ WaylandStep
    \/ InitialRegistryStep
    \/ RemoveStep
    \/ ConfigureStep

SpecConfigure == Init /\ [][NextConfigure]_vars

\* The leases at shutdown: the callers of test_overlay hold and query leases
\* while the WaylandOverlay is dropped.  Each lease task is a tokio task of its
\* own and takes the steps it can take; nothing obliges the others.
NextShutdown ==
    \/ InfoStep
    \/ ManagerStep
    \/ ShutdownStep
    \/ WaylandStep
    \/ InitialRegistryStep

FairShutdownSpec ==
    /\ Init /\ [][NextShutdown]_vars
    /\ \A q \in Requests : WF_vars(LeaseTaskHandle(q) \/ LeaseTaskRelease(q))

\* The lease information: the outputs also report scale factors and names
\* while they are enumerated, and the callers query the leases they get.
NextInfo ==
    \/ InfoStep
    \/ ManagerStep
    \/ WaylandStep
    \/ InitialRegistryStep
    \/ InitialDescribeStep

SpecInfo == Init /\ [][NextInfo]_vars

\* overlay/backend_wayland: test_overlay against a compositor that announces
\* its globals in any order.
NextOverlay ==
    \/ \E g \in OvGlobals : OvEvGlobal(g)
    \/ OvEvConfigure

SpecOverlay == Init /\ [][NextOverlay]_vars

\* The input pipeline: events of every device go through the router and the
\* dispatcher.
NextRouter ==
    \/ \E d \in Devices, event \in TabletEvents : RouterEvent(d, event)
    \/ \E d \in Devices : SessionEnds(d)
    \/ DispatcherDeliver

SpecRouter == Init /\ [][NextRouter]_vars

\* ------------------------------------------------------------------ claims
Available == SeqToSet(state.available_surfaces)
Used      == DOMAIN state.used_surfaces

\* The display a lease of invocation q is bound to, from the moment the manager
\* grants it until its lease task has sent the release.
Granted(q) == pc[q] = "waiting" /\ reply[q].st = "sent" /\ IsSome(reply[q].val)
HasLease(q) == Granted(q) \/ pc[q] \in {"holding", "dropped"}
LeaseId(q) == IF Granted(q) THEN Unwrap(reply[q].val).id ELSE Unwrap(lease[q]).id

\* The manager loop takes the command at the head of the queue.
Dequeues ==
    /\ command_queue # << >>
    /\ command_queue' = Tail(command_queue)

\* C1: next_display never reaches its panic branch, whatever the pool holds.
C1_NextDisplayNeverPanics == \A q \in Requests : pc[q] # "panicked"

\* C2: no two leases outstanding at the same time are bound to the same display.
C2_DistinctLeases ==
    \A q1, q2 \in Requests :
        (q1 # q2 /\ HasLease(q1) /\ HasLease(q2)) => LeaseId(q1) # LeaseId(q2)

\* C2 witness: with two displays, two acquires without a release in between
\* have both returned a Display.
C2_TwoLeasesHeld ==
    /\ Cardinality(DOMAIN state.surfaces) = 2
    /\ \E q1, q2 \in Requests :
          /\ q1 # q2
          /\ pc[q1] = "holding" /\ pc[q2] = "holding"
          /\ LeaseId(q1) # LeaseId(q2)

\* A display of the pool is available iff it has no reference count, and a
\* count that exists is not zero.
PoolPartition ==
    /\ \A id \in DOMAIN state.surfaces : (id \in Available) <=> (id \notin Used)
    /\ \A id \in Used : state.used_surfaces[id] > 0 /\ id \notin Available

\* A display of the pool that comes back to the available list does so in the
\* step that handles a ReleaseDisplay for it and takes its count from 1 to zero.
ReentersOnlyAtZero ==
    \A id \in DOMAIN state.surfaces :
        (id \notin Available /\ id \in SeqToSet(state'.available_surfaces)) =>
            /\ Dequeues
            /\ Head(command_queue) = ReleaseDisplayCmd(id)
            /\ id \in Used /\ state.used_surfaces[id] = 1
            /\ id \notin DOMAIN state'.used_surfaces

\* C3: in every state reached, a display added to the pool is available iff its
\* reference count is zero, and it re-enters the available list only on the
\* release that brings the count to zero.
C3_AvailableIffCountZero == [][PoolPartition' /\ ReentersOnlyAtZero]_vars

\* C3 witness: the display leased last (it is the current display) has been
\* released, its count removed, and is back in the available list while the
\* other display is still counted as used.
C3_ReleasedWhileOtherUsed ==
    \E id \in Available, other \in Used :
        /\ id # other
        /\ state.current_surface_id = Some(id)
        /\ id \notin Used
        /\ state.used_surfaces[other] = 1

\* C4: whatever acquires and releases were handled, no display id occurs more
\* than once in the available list.
C4_ReturnedExactlyOnce ==
    \A id \in OutputIds : Occurrences(state.available_surfaces, id) <= 1

\* C4 witness: the display that was acquired last has been released and is in
\* the available list once, nothing being leased any more.
C4_ReleasedBackOnce ==
    /\ state.current_surface_id # None
    /\ Occurrences(state.available_surfaces, Unwrap(state.current_surface_id)) = 1
    /\ Used = {}
    /\ command_queue = << >>

\* C5: handling the GetNextDisplay of a caller that gave up waiting grants
\* nothing: the pool is as it was before the command.
C5_AbandonedRequestGetsNothing ==
    [][ ( /\ Dequeues
          /\ Head(command_queue).kind = "GetNextDisplay"
          /\ reply[Unwrap(Head(command_queue).resp)].st = "rx_dropped" )
        => state' = state ]_vars

\* C6: once the compositor has closed the surface of a lease, no get_info or
\* get_dma_buffer on that lease completes successfully.
C6_ClosedSurfaceOpsFail ==
    [][ \A q \in Requests :
          ( /\ op[q].st = "pending"
            /\ op'[q].st = "ok"
            /\ backend[Unwrap(lease[q]).id].closed )
          => FALSE ]_vars

\* C7: a display whose surface the compositor closed is in neither the available
\* list nor the used map.
C7_ClosedLeavesAllPools ==
    \A id \in DOMAIN backend :
        backend[id].closed => (id \notin Available /\ id \notin Used)

\* C8: on no overlay surface, of either wayland backend, was a buffer attached
\* before a configure of that surface had been acknowledged.
C8_AttachOnlyAfterAck ==
    /\ \A id \in DOMAIN backend : ~backend[id].early_attach
    /\ ~ov_backend.early_attach

\* C9: the pool state shared with the manager changes only when the manager loop
\* handles a command; no other execution context changes it.
C9_StateChangesOnlyByCommand == [][state' # state => Dequeues]_vars

\* The command channel has no sender left: the overlay and every lease task
\* are gone.
QueueClosed == ~SendersAlive

\* C10: once the command queue is closed, the command loop ends and the wayland
\* task ends as well.
C10_ShutdownEndsBothTasks == QueueClosed ~> (mgr_pc # "running" /\ wl_pc = "done")

\* Position of a display in the available list (0: not in it).
PositionIn(seq, id) ==
    IF id \in SeqToSet(seq) THEN CHOOSE i \in 1..Len(seq) : seq[i] = id ELSE 0

C12_PooledDisplaysHaveValidSize ==
    \A id \in Available \cup Used :
        /\ id \in DOMAIN state.surfaces
        /\ state.surfaces[id].width > 0
        /\ state.surfaces[id].height > 0

\* C13: get_dma_buffer completes successfully only on a lease whose layer
\* surface has had a configure acknowledged.
C13_BufferOnlyWhenReady ==
    [][ \A q \in Requests :
          ( /\ op[q].kind = "GetDmaBuffer"
            /\ op[q].st = "pending"
            /\ op'[q].st = "ok" )
          => backend[Unwrap(lease[q]).id].acked > 0 ]_vars

\* C14: a display whose output the compositor has withdrawn is unknown to the
\* pool: it has no SurfaceInfo and is neither available nor used.
C14_RemovedOutputLeavesPool ==
    \A id \in removed :
        /\ id \notin DOMAIN state.surfaces
        /\ id \notin Available
        /\ id \notin Used

ReplyChannelsSingleUse ==
    /\ \A i \in 1..Len(command_queue) :
          IsSome(command_queue[i].resp) <=> command_queue[i].kind = "GetNextDisplay"
    /\ \A i, j \in 1..Len(command_queue) :
          (i # j /\ IsSome(command_queue[i].resp)) =>
              command_queue[i].resp # command_queue[j].resp

\* A reply is sent only in the step that takes the command carrying its
\* channel from the queue, on a channel not used before.
RepliesOnlyToHandledCommand ==
    \A q \in Requests :
        (reply'[q].st = "sent" /\ reply[q].st # "sent") =>
            /\ Dequeues
            /\ Head(command_queue).resp = Some(q)
            /\ reply[q].st = "open"

RoutedOf(d) == SelectSeq(rt_out, LAMBDA routed : routed.source = d)

\* The RoutedEvents the dispatcher has handled, and those of them tagged
\* Propagate.
Dispatched == SubSeq(rt_out, 1, dp_done)
DispatchedPropagate == SelectSeq(Dispatched, LAMBDA routed : routed.tag = "Propagate")

\* C16: for every device, as many RoutedEvents have left the router as events
\* have entered it, in the Idle and in the SessionActive state.
C16_RouterNeverDrops == \A d \in Devices : Len(RoutedOf(d)) = rt_entered[d]

\* C16 witness: events of a device have gone through the router while its
\* session was active.
C16_RoutedDuringSession ==
    \E d \in Devices :
        /\ rt_entered[d] >= 2
        /\ rt_state[d] = "SessionActive"
        /\ \E i \in 1..Len(rt_out) :
              rt_out[i].source = d /\ rt_out[i].tag = "Suppressed"

\* C17: an event is tagged with the session state its device has when the event
\* is processed, before the transition it triggers: Suppressed if the device is
\* SessionActive, Propagate if it is Idle.
C17_TagIsStateWhenProcessed ==
    [][ \A d \in Devices :
          rt_entered'[d] = rt_entered[d] + 1 =>
              /\ Len(rt_out') = Len(rt_out) + 1
              /\ rt_out'[Len(rt_out')].source = d
              /\ rt_out'[Len(rt_out')].tag =
                     IF rt_state[d] = "SessionActive" THEN "Suppressed" ELSE "Propagate"
      ]_vars

\* C17 witness: a device sent AuxButton(1,true), a pen sample, AuxButton(1,false);
\* the engage event left tagged Propagate, the pen sample Suppressed.
C17_EngagePenDisengage ==
    \E d \in Devices :
        /\ Len(RoutedOf(d)) = 3
        /\ RoutedOf(d)[1] = RoutedEvent(d, AuxButton(1, TRUE), "Propagate")
        /\ RoutedOf(d)[2] = RoutedEvent(d, PenSample, "Suppressed")
        /\ RoutedOf(d)[3].payload = AuxButton(1, FALSE)
        /\ rt_state[d] = "Idle"

C19_WaitsUntilAvailable ==
    \A q \in Requests : reply[q].st = "sent" => IsSome(reply[q].val)

\* ReleaseDisplay commands for display id waiting in the queue.
ReleasesQueued(id) ==
    Cardinality({i \in 1..Len(command_queue) : command_queue[i] = ReleaseDisplayCmd(id)})

\* At most one release of a display is under way, and only when no Display of
\* it is alive and its count is still held.
ReleasedOnceAfterDrop ==
    \A id \in OutputIds :
        /\ ReleasesQueued(id) <= 1
        /\ ReleasesQueued(id) = 1 =>
              /\ id \in Used
              /\ \A q \in Requests : HasLease(q) => LeaseId(q) # id

\* A ReleaseDisplay enters the queue only in the step in which the lease task
\* of a dropped Display of that display ends.
ReleaseSentOnDrop ==
    \A id \in OutputIds :
        ReleasesQueued(id)' > ReleasesQueued(id) =>
            \E q \in Requests :
                /\ pc[q] = "dropped" /\ pc'[q] = "idle"
                /\ Unwrap(lease[q]).id = id

\* C20: every lease is released exactly once: dropping its Display puts one
\* ReleaseDisplay for its display in the queue, none is sent while the Display
\* is alive, and the display then comes back to the available list.
C20_ReleasedExactlyOnce ==
    /\ [][ReleasedOnceAfterDrop' /\ ReleaseSentOnDrop]_vars
    /\ \A id \in OutputIds :
          (\E q \in Requests : pc[q] = "dropped" /\ LeaseId(q) = id) ~> (id \in Available)

\* C20 witness: a Display was dropped, its release is in the queue, and the
\* manager has not handled it yet.
C20_ReleaseQueued ==
    \E id \in Used :
        /\ ReleasesQueued(id) = 1
        /\ \A q \in Requests : HasLease(q) => LeaseId(q) # id

\* A Display was dropped and its lease task has not sent the release yet.
ReleaseUnsent == \E p \in Requests : pc[p] = "dropped"

\* C21: a caller that drops its Display and then calls next_display has the
\* release handled before its new request.  The manager takes the commands in
\* queue order, so this says: when next_display sends its GetNextDisplay, the
\* release of every Display dropped before is already in the queue or handled.
C21_ReleaseBeforeReacquire ==
    [][\A q \in Requests : NextDisplayCall(q) => ~ReleaseUnsent]_vars

\* What the manager's table records for display id, in the form of a
\* DisplayInfo: the name is the placeholder when the output had reported none.
RecordedInfo(id) ==
    LET rec == state.surfaces[id]
    IN [width        |-> rec.width,
        height       |-> rec.height,
        scale_factor |-> rec.scale_factor,
        name         |-> IF rec.name = None THEN UnknownName ELSE Unwrap(rec.name)]

\* get_info of invocation q's Display has completed.
InfoAnswered(q) == pc[q] = "holding" /\ op[q].st = "ok" /\ op[q].kind = "GetInfo"

\* Every answer to get_info is the record of the display the lease is bound to,
\* and that display is the one counted as used for it.
GetInfoMatchesRecord ==
    \A q \in Requests :
        InfoAnswered(q) =>
            /\ LeaseId(q) \in Used
            /\ LeaseId(q) \in DOMAIN state.surfaces
            /\ op[q].result = Some(RecordedInfo(LeaseId(q)))

\* While a lease lasts neither what its task saved nor the record of its
\* display changes, so two answers on one lease are the same.
LeaseInfoKept ==
    \A q \in Requests :
        (pc[q] = "holding" /\ pc'[q] = "holding") =>
            /\ lease'[q] = lease[q]
            /\ state'.surfaces[LeaseId(q)] = state.surfaces[LeaseId(q)]
            /\ (InfoAnswered(q) /\ InfoAnswered(q)') => op'[q].result = op[q].result

\* C22: get_info on a Display returns the width, height, scale factor and name
\* recorded for the display the manager leased for that request (the name
\* replaced by the placeholder when none was recorded), and the answer is the
\* same at every call during the lease.
C22_GetInfoReturnsLeasedDisplay ==
    [][GetInfoMatchesRecord' /\ LeaseInfoKept]_vars

\* C22 witness: get_info was answered for a leased 3x2 display that reported
\* scale factor 2 and no name.
C22_InfoOfUnnamedDisplay ==
    \E q \in Requests :
        /\ InfoAnswered(q)
        /\ op[q].result = Some([width |-> 3, height |-> 2, scale_factor |-> 2,
                                name |-> UnknownName])
        /\ state.surfaces[LeaseId(q)].name = None

\* Every output the registry has announced has reported a valid size.
EveryOutputHasSize ==
    \A id \in DOMAIN wayland_state.outputs : wayland_state.outputs[id].has_valid_size

\* C23: all_outputs_have_size is true only if there is an output and every
\* known output has a valid size, so the creation of the overlays does not start
\* while a known output has none.
C23_AllOutputsHaveSize ==
    /\ all_outputs_have_size(wayland_state) =>
           (DOMAIN wayland_state.outputs # {} /\ EveryOutputHasSize)
    /\ wl_pc = "create" => EveryOutputHasSize

\* Output id is known with a valid size while the wayland task serves events,
\* and the pool has no surface for it.
ValidOutputWithoutOverlay(id) ==
    /\ wl_pc = "main_loop"
    /\ id \in DOMAIN wayland_state.outputs
    /\ wayland_state.outputs[id].has_valid_size
    /\ id \notin DOMAIN state.surfaces

\* C24: a display announced after the enumeration, or without valid size when
\* the overlays were created, that reports a mode with width > 0 and height > 0
\* eventually gets an overlay surface and enters the pool (unless it is
\* withdrawn or the wayland task ends first).
C24_ValidOutputGetsOverlay ==
    \A id \in OutputIds :
        ValidOutputWithoutOverlay(id) ~>
            \/ id \in DOMAIN state.surfaces
            \/ id \notin DOMAIN wayland_state.outputs
            \/ wl_pc = "done"

\* The compositor has announced wl_compositor, wl_shm and zwlr_layer_shell_v1
\* and an output that has reported a mode with width > 0 and height > 0.
GlobalsAndValidOutput ==
    /\ wayland_state.compositor /\ wayland_state.shm /\ wayland_state.layer_shell
    /\ \E id \in DOMAIN wayland_state.outputs : wayland_state.outputs[id].has_valid_size

\* The overlays are created: the outputs with a valid size are in the available
\* list once each, and no other output is.
ValidOutputsPooledOnce ==
    /\ wl_pc = "main_loop"
    /\ \A id \in OutputIds :
          Occurrences(state.available_surfaces, id) =
              IF /\ id \in DOMAIN wayland_state.outputs
                 /\ wayland_state.outputs[id].has_valid_size
              THEN 1 ELSE 0

C26_CountIsOne ==
    \A id \in Used : state.used_surfaces[id] = 1

\* C26 witness: both displays are leased and the manager is about to handle the
\* release of one of them.
C26_ReleaseAboutToDecrement ==
    /\ Cardinality(Used) = 2
    /\ command_queue # << >>
    /\ Head(command_queue).kind = "ReleaseDisplay"
    /\ Unwrap(Head(command_queue).id) \in Used

\* The manager handles a ReleaseDisplay for an id without entry in used_surfaces.
HandlesStrayRelease ==
    /\ MgrReleaseDisplay
    /\ Unwrap(Head(command_queue).id) \notin Used

\* C27: a ReleaseDisplay for an id that has no entry in used_surfaces changes
\* nothing: available_surfaces, used_surfaces, surfaces and current_surface_id
\* stay as they are and the manager task goes on.
C27_StrayReleaseIsNoOp ==
    [][HandlesStrayRelease =>
          /\ state'.available_surfaces = state.available_surfaces
          /\ state'.used_surfaces = state.used_surfaces
          /\ state'.surfaces = state.surfaces
          /\ state'.current_surface_id = state.current_surface_id
          /\ mgr_pc' = "running"]_vars

\* C27 witness: the first command, a release without entry, has been handled,
\* and the pool it left alone has a display in use and one available.
C27_StrayReleaseHandled ==
    /\ Len(command_queue) = 1
    /\ Used # {}
    /\ state.available_surfaces # << >>

\* The compositor's Configure for the surface of output id is handled in this step.
ConfigureDelivered(id) ==
    \E size \in Sizes, file_ok \in BOOLEAN : EvConfigure(id, size, file_ok)

\* The step acknowledges the serial of its Configure, once, on the surface the
\* event is for; the commit it makes, if the surface is in the table, comes
\* after that acknowledgement.
ConfigureAckedThenCommitted ==
    \A id \in DOMAIN backend :
        ConfigureDelivered(id) =>
            /\ backend'[id].acks = Append(backend[id].acks, next_serial)
            /\ \A other \in DOMAIN backend \ {id} : backend'[other] = backend[other]
            /\ backend'[id].committed_ack =
                   IF id \in DOMAIN wayland_state.surfaces
                   THEN next_serial
                   ELSE backend[id].committed_ack

\* No serial is acknowledged but by the step that handles its Configure.
AcksOnlyOnConfigure ==
    \A id \in DOMAIN backend :
        backend'[id].acks # backend[id].acks => ConfigureDelivered(id)

\* C28: every Configure delivered for a layer surface is acknowledged exactly
\* once, with its own serial, before the commit made in response to it, also
\* when its width or height is 0 or the surface has left the surface table.
C28_ConfigureAckedOnce ==
    [][ConfigureAckedThenCommitted /\ AcksOnlyOnConfigure]_vars

\* C28 witness: a surface has acknowledged a Configure without a commit after
\* it (it had left the table) and had committed after an earlier one without
\* attaching a buffer.
C28_AckedOutsideTable ==
    \E id \in DOMAIN backend :
        /\ id \notin DOMAIN wayland_state.surfaces
        /\ backend[id].committed_ack > 0
        /\ backend[id].acked > backend[id].committed_ack
        /\ ~backend[id].attached

\* The WaylandOverlay has been dropped: the abort of the manager task is
\* requested or has taken effect.
OverlayDropped == ~overlay_alive

\* After the drop every answer to get_info is still the record of the display
\* the lease is bound to.
InfoAfterDrop ==
    \A q \in Requests :
        (OverlayDropped /\ InfoAnswered(q)) =>
            op[q].result = Some(RecordedInfo(LeaseId(q)))

\* The lease task of a dropped Display ends without panic; with the manager
\* gone its ReleaseDisplay is lost and nothing else happens.
DropAfterManagerIgnored ==
    \A q \in Requests :
        (pc[q] = "dropped" /\ pc'[q] # "dropped") =>
            /\ pc'[q] = "idle"
            /\ mgr_pc # "running" => (command_queue' = command_queue /\ state' = state)

\* C29: a Display outlives the WaylandOverlay: after the overlay is dropped
\* get_info on it still completes with its DisplayInfo, and dropping it then
\* completes without panic, the failed send of ReleaseDisplay being ignored.
C29_LeasesSurviveManager ==
    /\ []InfoAfterDrop
    /\ [][DropAfterManagerIgnored]_vars
    /\ \A q \in Requests :
          /\ (OverlayDropped /\ pc[q] = "holding" /\ op[q].st = "pending")
                 ~> (op[q].st = "ok")
          /\ (OverlayDropped /\ pc[q] = "dropped") ~> (pc[q] = "idle")

\* C29 witness: the manager task is aborted, and get_info on a Display that is
\* still held has been answered while the lease task of another, dropped
\* after the abort or before, has not yet tried to send its release.
C29_InfoFromOrphanedLease ==
    /\ mgr_pc = "aborted"
    /\ \E q \in Requests : InfoAnswered(q)
    /\ \E q \in Requests : pc[q] = "dropped"

=============================================================================
